---- MODULE Spec2Model ----
(***************************************************************************)
(* Model of graphs/graph.py: the classes Vertex and Graph, the two         *)
(* construction operations (add_vertex, add_edge) and the query            *)
(* algorithms of Graph.                                                    *)
(*                                                                         *)
(* A Python dict is a sequence of <<key, value>> pairs in insertion order  *)
(* (assigning to an existing key keeps its position), a list or deque a    *)
(* sequence, a set a set.  Vertex objects live in `objects`; a reference   *)
(* to a Vertex is its index there, and None is the reference 0.  Two       *)
(* Vertex objects may carry the same id: add_vertex always constructs a    *)
(* new object, and the one it replaces in the graph stays alive for as     *)
(* long as some neighbors dict refers to it.                               *)
(*                                                                         *)
(* Every operation is one action.  It records what it was called with in   *)
(* `call` and what it returned or raised in `ret`; where the code draws    *)
(* at random (random.choice, the iteration order of a set) the action      *)
(* takes any of the results the draw can lead to.                          *)
(***************************************************************************)
EXTENDS Integers, Sequences, FiniteSets, TLC

\* Vertex ids the callers draw from.
Ids == {"A", "B", "C"}

\* Bounds of the exploration: add_vertex is called while fewer than
\* MaxObjects Vertex objects are alive, add_edge adds while fewer than
\* MaxEdges edges are stored (an undirected edge is stored at both ends), and
\* find_vertices_n_away is asked for distances up to MaxDistance.
MaxObjects == 4
MaxEdges == 3
MaxDistance == 2

None == 0

VARIABLES
    objects,       \* the Vertex objects alive: [id, neighbors_dict]
    vertex_dict,   \* Graph.__vertex_dict: id -> Vertex reference
    is_directed,   \* Graph.__is_directed
    call,          \* the last operation called and its arguments
    ret            \* what that call returned or raised

vars == <<objects, vertex_dict, is_directed, call, ret>>

----------------------------------------------------------------------------
\* Python dict, list and set primitives

DictKeys(d) == [i \in 1..Len(d) |-> d[i][1]]

DictValues(d) == [i \in 1..Len(d) |-> d[i][2]]

DictHas(d, k) == \E i \in 1..Len(d) : d[i][1] = k

DictGet(d, k) == d[CHOOSE i \in 1..Len(d) : d[i][1] = k][2]

DictSet(d, k, v) ==
    IF DictHas(d, k)
    THEN [i \in 1..Len(d) |-> IF d[i][1] = k THEN <<k, v>> ELSE d[i]]
    ELSE Append(d, <<k, v>>)

SeqToSet(s) == {s[i] : i \in 1..Len(s)}

\* list.remove(x): drops the first occurrence of x
ListRemove(s, x) ==
    LET i == CHOOSE j \in 1..Len(s) : s[j] = x /\ \A k \in 1..(j-1) : s[k] # x
    IN  [j \in 1..(Len(s)-1) |-> IF j < i THEN s[j] ELSE s[j+1]]

\* list.pop() / deque.pop(): the last element and the rest
Last(s) == s[Len(s)]

Front(s) == SubSeq(s, 1, Len(s) - 1)

----------------------------------------------------------------------------
\* class Vertex

Vertex(vertex_id) == [id |-> vertex_id, neighbors_dict |-> <<>>]

get_id(o) == objects[o].id

get_neighbors(o) == DictValues(objects[o].neighbors_dict)

\* the heap after `self.add_neighbor(vertex_obj)`, self and vertex_obj not None
add_neighbor(heap, self, vertex_obj) ==
    [heap EXCEPT ![self].neighbors_dict =
        DictSet(@, heap[vertex_obj].id, vertex_obj)]

----------------------------------------------------------------------------
\* class Graph: construction

contains_id(vertex_id) == DictHas(vertex_dict, vertex_id)

get_vertex(vertex_id) ==
    IF ~DictHas(vertex_dict, vertex_id) THEN None
    ELSE DictGet(vertex_dict, vertex_id)

get_vertices == DictValues(vertex_dict)

\* the number of entries of all neighbors dicts
NumEntries ==
    LET RECURSIVE sum(_)
        sum(n) == IF n = 0 THEN 0
                  ELSE Len(objects[n].neighbors_dict) + sum(n - 1)
    IN  sum(Len(objects))

\* Vertex objects have no observable identity beyond what refers to them, and
\* an object nothing refers to any more is reclaimed.  The heap is therefore
\* kept as the objects reachable from vertex_dict, numbered in the order a
\* breadth-first walk from vertex_dict (then along each neighbors_dict) meets
\* them.  LiveOrder is that walk; Normalized renumbers heap and dict by it.
RECURSIVE LiveAppend(_, _)
LiveAppend(order, refs) ==
    IF refs = <<>> THEN order
    ELSE LiveAppend(IF Head(refs) \in SeqToSet(order) THEN order
                    ELSE Append(order, Head(refs)),
                    Tail(refs))

RECURSIVE LiveWalk(_, _, _)
LiveWalk(heap, order, i) ==
    IF i > Len(order) THEN order
    ELSE LiveWalk(heap,
                  LiveAppend(order, DictValues(heap[order[i]].neighbors_dict)),
                  i + 1)

LiveOrder(heap, dict) == LiveWalk(heap, LiveAppend(<<>>, DictValues(dict)), 1)

Renumbered(order, d) ==
    [i \in 1..Len(d) |->
        <<d[i][1], CHOOSE k \in 1..Len(order) : order[k] = d[i][2]>>]

Normalized(heap, dict) ==
    LET order == LiveOrder(heap, dict) IN
    [objects |-> [k \in 1..Len(order) |->
                     [id |-> heap[order[k]].id,
                      neighbors_dict |->
                          Renumbered(order, heap[order[k]].neighbors_dict)]],
     vertex_dict |-> Renumbered(order, dict)]

Init ==
    /\ objects = <<>>
    /\ vertex_dict = <<>>
    /\ is_directed \in BOOLEAN
    /\ call = [name |-> "Graph", args |-> <<>>]
    /\ ret = [kind |-> "None", val |-> <<>>]

add_vertex(vertex_id) ==
    LET heap1 == Append(objects, Vertex(vertex_id))
        dict1 == DictSet(vertex_dict, vertex_id, Len(heap1))
        n == Normalized(heap1, dict1)
    IN  /\ Len(objects) < MaxObjects
        /\ objects' = n.objects
        /\ vertex_dict' = n.vertex_dict
        /\ call' = [name |-> "add_vertex", args |-> <<vertex_id>>]
        /\ ret' = [kind |-> "Vertex", val |-> DictGet(n.vertex_dict, vertex_id)]
        /\ UNCHANGED is_directed

add_edge(vertex_id1, vertex_id2) ==
    LET vertex_2 == get_vertex(vertex_id2) IN
    /\ call' = [name |-> "add_edge", args |-> <<vertex_id1, vertex_id2>>]
    /\ UNCHANGED is_directed
    /\ IF ~DictHas(vertex_dict, vertex_id1)
       THEN \* self.__vertex_dict[vertex_id1] raises KeyError
            /\ ret' = [kind |-> "KeyError", val |-> <<>>]
            /\ UNCHANGED <<objects, vertex_dict>>
       ELSE IF vertex_2 = None
       THEN \* add_neighbor(None) reads None.__id: AttributeError
            /\ ret' = [kind |-> "AttributeError", val |-> <<>>]
            /\ UNCHANGED <<objects, vertex_dict>>
       ELSE LET vertex_1 == DictGet(vertex_dict, vertex_id1)
                heap1 == add_neighbor(objects, vertex_1, vertex_2)
                heap2 == IF ~is_directed
                         THEN add_neighbor(heap1, vertex_2, vertex_1)
                         ELSE heap1
                n == Normalized(heap2, vertex_dict)
            IN  /\ NumEntries < MaxEdges * (IF is_directed THEN 1 ELSE 2)
                /\ objects' = n.objects
                /\ vertex_dict' = n.vertex_dict
                /\ ret' = [kind |-> "None", val |-> <<>>]

----------------------------------------------------------------------------
\* class Graph: queries.  Every query leaves the graph unchanged and records
\* what it returned (or raised) in ret.

Returns(name, args, r) ==
    /\ call' = [name |-> name, args |-> args]
    /\ ret' = r
    /\ UNCHANGED <<objects, vertex_dict, is_directed>>

Value(kind, val) == [kind |-> kind, val |-> val]

Raised(kind) == [kind |-> kind, val |-> <<>>]

\* ---- bfs_traversal: the ids in the order they are printed
RECURSIVE bfs_for(_, _, _)
bfs_for(neighbors, seen, queue) ==
    IF neighbors = <<>> THEN [seen |-> seen, queue |-> queue]
    ELSE LET neighbor == Head(neighbors) IN
         IF get_id(neighbor) \notin seen
         THEN bfs_for(Tail(neighbors), seen \cup {get_id(neighbor)},
                      Append(queue, neighbor))
         ELSE bfs_for(Tail(neighbors), seen, queue)

RECURSIVE bfs_while(_, _, _)
bfs_while(queue, seen, printed) ==
    IF queue = <<>> THEN printed
    ELSE LET current_vertex_obj == Last(queue)
             r == bfs_for(get_neighbors(current_vertex_obj), seen, Front(queue))
         IN  bfs_while(r.queue, r.seen,
                       Append(printed, get_id(current_vertex_obj)))

bfs_traversal_result(start_id) ==
    IF ~contains_id(start_id) THEN Raised("KeyError")
    ELSE Value("None", bfs_while(<<get_vertex(start_id)>>, {start_id}, <<>>))

bfs_traversal(start_id) ==
    Returns("bfs_traversal", <<start_id>>, bfs_traversal_result(start_id))

\* ---- find_shortest_path
RECURSIVE fsp_for(_, _, _, _)
fsp_for(neighbors, current_vertex_id, queue, vertex_id_to_path) ==
    IF neighbors = <<>>
    THEN [queue |-> queue, vertex_id_to_path |-> vertex_id_to_path]
    ELSE LET neighbor == Head(neighbors) IN
         IF ~DictHas(vertex_id_to_path, get_id(neighbor))
         THEN LET current_path == DictGet(vertex_id_to_path, current_vertex_id)
                  next_path == current_path \o <<get_id(neighbor)>>
              IN  fsp_for(Tail(neighbors), current_vertex_id,
                          Append(queue, neighbor),
                          DictSet(vertex_id_to_path, get_id(neighbor), next_path))
         ELSE fsp_for(Tail(neighbors), current_vertex_id, queue,
                      vertex_id_to_path)

RECURSIVE fsp_while(_, _, _)
fsp_while(queue, vertex_id_to_path, target_id) ==
    IF queue = <<>>
    THEN IF ~DictHas(vertex_id_to_path, target_id)
         THEN Value("None", <<>>)
         ELSE Value("list", DictGet(vertex_id_to_path, target_id))
    ELSE LET current_vertex_obj == Head(queue)
             current_vertex_id == get_id(current_vertex_obj)
         IN  IF current_vertex_id = target_id
             THEN Value("list", DictGet(vertex_id_to_path, target_id))
             ELSE LET r == fsp_for(get_neighbors(current_vertex_obj),
                                   current_vertex_id, Tail(queue),
                                   vertex_id_to_path)
                  IN  fsp_while(r.queue, r.vertex_id_to_path, target_id)

find_shortest_path_result(start_id, target_id) ==
    IF ~contains_id(start_id) \/ ~contains_id(target_id)
    THEN Raised("KeyError")
    ELSE fsp_while(<<get_vertex(start_id)>>, <<<<start_id, <<start_id>>>>>>,
                   target_id)

find_shortest_path(start_id, target_id) ==
    Returns("find_shortest_path", <<start_id, target_id>>,
            find_shortest_path_result(start_id, target_id))

\* ---- find_vertices_n_away
RECURSIVE nav_for(_, _, _, _, _, _, _)
nav_for(neighbors, vertex_id, target_distance, vertice_distance, results, seen, queue) ==
    IF neighbors = <<>>
    THEN [vertice_distance |-> vertice_distance, results |-> results,
          seen |-> seen, queue |-> queue]
    ELSE LET n == Head(neighbors)
             neighbor_id == get_id(n)
         IN  IF neighbor_id \notin seen
             THEN LET d0 == IF ~DictHas(vertice_distance, neighbor_id)
                            THEN DictSet(vertice_distance, neighbor_id,
                                         DictGet(vertice_distance, vertex_id))
                            ELSE vertice_distance
                      d1 == DictSet(d0, neighbor_id,
                                    DictGet(d0, neighbor_id) + 1)
                      res == IF DictGet(d1, neighbor_id) = target_distance
                             THEN Append(results, neighbor_id)
                             ELSE results
                  IN  nav_for(Tail(neighbors), vertex_id, target_distance, d1,
                              res, seen \cup {neighbor_id}, Append(queue, n))
             ELSE nav_for(Tail(neighbors), vertex_id, target_distance,
                          vertice_distance, results, seen, queue)

RECURSIVE nav_while(_, _, _, _, _)
nav_while(queue, target_distance, vertice_distance, results, seen) ==
    IF queue = <<>> THEN results
    ELSE LET vertex == Head(queue)
             vertex_id == get_id(vertex)
         IN  IF DictGet(vertice_distance, vertex_id) = target_distance + 1
             THEN results
             ELSE LET r == nav_for(get_neighbors(vertex), vertex_id,
                                   target_distance, vertice_distance, results,
                                   seen, Tail(queue))
                  IN  nav_while(r.queue, target_distance, r.vertice_distance,
                                r.results, r.seen)

find_vertices_n_away_result(start_id, target_distance) ==
    IF get_vertex(start_id) = None
    THEN Raised("AttributeError")   \* None.get_id()
    ELSE Value("list", nav_while(<<get_vertex(start_id)>>, target_distance,
                                 <<<<start_id, 0>>>>, <<>>, {start_id}))

find_vertices_n_away(start_id, target_distance) ==
    Returns("find_vertices_n_away", <<start_id, target_distance>>,
            find_vertices_n_away_result(start_id, target_distance))

\* ---- is_bipartite (queue.pop() takes the right end, appendleft the left)
RECURSIVE bip_for(_, _, _, _)
bip_for(neighbors, vertex_id, queue, all_colors) ==
    IF neighbors = <<>>
    THEN [returned |-> FALSE, queue |-> queue, all_colors |-> all_colors]
    ELSE LET n == Head(neighbors)
             n_id == get_id(n)
         IN  IF ~DictHas(all_colors, n_id)
             THEN bip_for(Tail(neighbors), vertex_id, <<n>> \o queue,
                          DictSet(all_colors, n_id,
                                  IF DictGet(all_colors, vertex_id) = "red"
                                  THEN "blue" ELSE "red"))
             ELSE IF DictGet(all_colors, n_id) = DictGet(all_colors, vertex_id)
             THEN [returned |-> TRUE, queue |-> queue, all_colors |-> all_colors]
             ELSE bip_for(Tail(neighbors), vertex_id, queue, all_colors)

RECURSIVE bip_while(_, _)
bip_while(queue, all_colors) ==
    IF queue = <<>> THEN TRUE
    ELSE LET vertex_object == Last(queue)
             r == bip_for(get_neighbors(vertex_object), get_id(vertex_object),
                          Front(queue), all_colors)
         IN  IF r.returned THEN FALSE
             ELSE bip_while(r.queue, r.all_colors)

\* the result when random.choice picks start_id
is_bipartite_from(start_id) ==
    Value("bool", bip_while(<<get_vertex(start_id)>>, <<<<start_id, "red">>>>))

is_bipartite ==
    IF vertex_dict = <<>>
    THEN Returns("is_bipartite", <<>>, Raised("IndexError"))  \* choice([])
    ELSE \E start_id \in SeqToSet(DictKeys(vertex_dict)) :
            Returns("is_bipartite", <<start_id>>, is_bipartite_from(start_id))

\* ---- get_connected_components: the set of results over all random choices
RECURSIVE gcc_for(_, _, _, _)
gcc_for(neighbors, seen, queue, ids_left) ==
    IF neighbors = <<>>
    THEN [raised |-> FALSE, seen |-> seen, queue |-> queue,
          ids_left |-> ids_left]
    ELSE LET n == Head(neighbors)
             n_id == get_id(n)
         IN  IF n_id \notin seen
             THEN IF n_id \notin SeqToSet(ids_left)
                  THEN [raised |-> TRUE, seen |-> seen, queue |-> queue,
                        ids_left |-> ids_left]     \* list.remove: ValueError
                  ELSE gcc_for(Tail(neighbors), seen \cup {n_id},
                               <<n>> \o queue, ListRemove(ids_left, n_id))
             ELSE gcc_for(Tail(neighbors), seen, queue, ids_left)

RECURSIVE gcc_while(_, _, _, _, _)
gcc_while(queue, seen, ids_left, components, com) ==
    IF queue = <<>> THEN {Value("list", components)}
    ELSE LET vertex_oject == Last(queue)
             com1 == Append(com, get_id(vertex_oject))
             r == gcc_for(get_neighbors(vertex_oject), seen, Front(queue),
                          ids_left)
         IN  IF r.raised THEN {Raised("ValueError")}
             ELSE IF Len(r.queue) = 0
             THEN LET components1 == Append(components, com1) IN
                  IF Len(r.ids_left) = 0
                  THEN {Value("list", components1)}
                  ELSE UNION {gcc_while(<<get_vertex(new_start)>>,
                                        r.seen \cup {new_start},
                                        ListRemove(r.ids_left, new_start),
                                        components1, <<>>)
                              : new_start \in SeqToSet(r.ids_left)}
             ELSE gcc_while(r.queue, r.seen, r.ids_left, components, com1)

get_connected_components_results ==
    IF vertex_dict = <<>> THEN {Raised("IndexError")}     \* choice([])
    ELSE UNION {gcc_while(<<get_vertex(start_id)>>, {start_id},
                          ListRemove(DictKeys(vertex_dict), start_id),
                          <<>>, <<>>)
                : start_id \in SeqToSet(DictKeys(vertex_dict))}

get_connected_components ==
    \E r \in get_connected_components_results :
        Returns("get_connected_components", <<>>, r)

\* ---- find_path_dfs_iter
RECURSIVE dfs_for(_, _, _, _, _)
dfs_for(neighbors, vertex_id, target_id, stack, paths) ==
    IF neighbors = <<>>
    THEN [returned |-> FALSE, stack |-> stack, paths |-> paths]
    ELSE LET n == Head(neighbors)
             n_id == get_id(n)
         IN  IF ~DictHas(paths, n_id)
             THEN LET current_path == DictGet(paths, vertex_id)
                      next_path == current_path \o <<n_id>>
                  IN  IF n_id = target_id
                      THEN [returned |-> TRUE, next_path |-> next_path]
                      ELSE dfs_for(Tail(neighbors), vertex_id, target_id,
                                   Append(stack, n),
                                   DictSet(paths, n_id, next_path))
             ELSE dfs_for(Tail(neighbors), vertex_id, target_id, stack, paths)

RECURSIVE dfs_while(_, _, _)
dfs_while(stack, paths, target_id) ==
    IF stack = <<>> THEN Value("dict", paths)
    ELSE LET vertex_object == Last(stack)
             r == dfs_for(get_neighbors(vertex_object), get_id(vertex_object),
                          target_id, Front(stack), paths)
         IN  IF r.returned THEN Value("list", r.next_path)
             ELSE dfs_while(r.stack, r.paths, target_id)

find_path_dfs_iter_result(start_id, target_id) ==
    IF ~contains_id(start_id) \/ ~contains_id(target_id)
    THEN Raised("KeyError")
    ELSE dfs_while(<<get_vertex(start_id)>>, <<<<start_id, <<start_id>>>>>>,
                   target_id)

find_path_dfs_iter(start_id, target_id) ==
    Returns("find_path_dfs_iter", <<start_id, target_id>>,
            find_path_dfs_iter_result(start_id, target_id))

\* ---- contains_cycle.  visited and recursion_stack are shared by every
\* level of the recursion; a level yields them with what it returned:
\* "None" (the bare return), "IndexError" or "bool" with the value.
RECURSIVE dfs_cycle(_, _, _)
RECURSIVE cyc_for(_, _, _)
cyc_for(neighbors, visited, recursion_stack) ==
    IF neighbors = <<>>
    THEN [out |-> "end", visited |-> visited,
          recursion_stack |-> recursion_stack]
    ELSE LET n == Head(neighbors)
             n_id == get_id(n)
         IN  IF n_id \in SeqToSet(visited)
             THEN [out |-> "return", visited |-> visited,
                   recursion_stack |-> Append(recursion_stack, TRUE)]
             ELSE LET r == dfs_cycle(n, visited,
                                     Append(recursion_stack, FALSE))
                  IN  IF r.kind = "IndexError"
                      THEN [out |-> "raise", visited |-> r.visited,
                            recursion_stack |-> r.recursion_stack]
                      ELSE cyc_for(Tail(neighbors), r.visited,
                                   r.recursion_stack)

dfs_cycle(vertex, visited, recursion_stack) ==
    LET r == cyc_for(get_neighbors(vertex), Append(visited, get_id(vertex)),
                     recursion_stack)
        kind == IF r.out = "return" THEN "None"
                ELSE IF r.out = "raise" \/ r.recursion_stack = <<>>
                THEN "IndexError"
                ELSE "bool"
    IN  [kind |-> kind,
         val |-> IF kind = "bool" THEN Last(r.recursion_stack) ELSE <<>>,
         visited |-> r.visited, recursion_stack |-> r.recursion_stack]

contains_cycle_result ==
    IF vertex_dict = <<>> THEN Raised("IndexError")       \* list(...)[0]
    ELSE LET start_id == DictKeys(vertex_dict)[1]
             is_cycle == dfs_cycle(get_vertex(start_id), <<start_id>>, <<>>)
         IN  Value(is_cycle.kind, is_cycle.val)

contains_cycle == Returns("contains_cycle", <<>>, contains_cycle_result)

\* ---- topological_sort
RECURSIVE topo_count_neighbors(_, _)
topo_count_neighbors(neighbors, indegree_dict) ==
    IF neighbors = <<>> THEN indegree_dict
    ELSE LET neighbor_id == get_id(Head(neighbors)) IN
         topo_count_neighbors(Tail(neighbors),
             IF DictHas(indegree_dict, neighbor_id)
             THEN DictSet(indegree_dict, neighbor_id,
                          DictGet(indegree_dict, neighbor_id) + 1)
             ELSE DictSet(indegree_dict, neighbor_id, 1))

RECURSIVE topo_count(_, _)
topo_count(vertexes, indegree_dict) ==
    IF vertexes = <<>> THEN indegree_dict
    ELSE LET vert == Head(vertexes)
             d0 == IF ~DictHas(indegree_dict, get_id(vert))
                   THEN DictSet(indegree_dict, get_id(vert), 0)
                   ELSE indegree_dict
         IN  topo_count(Tail(vertexes),
                        topo_count_neighbors(get_neighbors(vert), d0))

RECURSIVE topo_indeg0(_)
topo_indeg0(items) ==
    IF items = <<>> THEN <<>>
    ELSE IF Head(items)[2] = 0
         THEN <<Head(items)[1]>> \o topo_indeg0(Tail(items))
         ELSE topo_indeg0(Tail(items))

\* topo_for with the test for zero off by one: a neighbor is queued when its
\* in-degree drops to 1
RECURSIVE topo_for_off_by_one(_, _, _)
topo_for_off_by_one(neighbors, indegree_dict, indeg0) ==
    IF neighbors = <<>> THEN [indegree_dict |-> indegree_dict, indeg0 |-> indeg0]
    ELSE LET neighbor_id == get_id(Head(neighbors))
             d1 == DictSet(indegree_dict, neighbor_id,
                           DictGet(indegree_dict, neighbor_id) - 1)
         IN  topo_for_off_by_one(Tail(neighbors), d1,
                                 IF DictGet(d1, neighbor_id) = 1
                                 THEN Append(indeg0, neighbor_id) ELSE indeg0)

RECURSIVE topo_for(_, _, _)
topo_for(neighbors, indegree_dict, indeg0) ==
    IF neighbors = <<>> THEN [indegree_dict |-> indegree_dict, indeg0 |-> indeg0]
    ELSE LET neighbor_id == get_id(Head(neighbors))
             d1 == DictSet(indegree_dict, neighbor_id,
                           DictGet(indegree_dict, neighbor_id) - 1)
         IN  topo_for(Tail(neighbors), d1,
                      IF DictGet(d1, neighbor_id) = 0
                      THEN Append(indeg0, neighbor_id) ELSE indeg0)

RECURSIVE topo_while(_, _, _)
topo_while(indeg0, indegree_dict, sorted_list) ==
    IF Len(indeg0) = 0 THEN sorted_list
    ELSE LET current_id == Last(indeg0)
             current_vertex == get_vertex(current_id)
             r == topo_for(get_neighbors(current_vertex), indegree_dict,
                           Front(indeg0))
         IN  topo_while(r.indeg0, r.indegree_dict,
                        Append(sorted_list, current_id))

topological_sort_result ==
    LET indegree_dict == topo_count(get_vertices, <<>>)
    IN  Value("list", topo_while(topo_indeg0(indegree_dict), indegree_dict,
                                 <<>>))

topological_sort == Returns("topological_sort", <<>>, topological_sort_result)

\* ---- find_connected_components: the set of results over every order in
\* which list(all_ids).pop() can hand out the ids.  list(seen) holds each
\* member of seen once, in an order Python does not fix: a component is
\* recorded as the set seen.
RECURSIVE fcc_for(_, _, _, _)
fcc_for(neighbors, all_ids, quene, seen) ==
    IF neighbors = <<>>
    THEN [all_ids |-> all_ids, quene |-> quene, seen |-> seen]
    ELSE LET neighbor_id == get_id(Head(neighbors))
             all_ids1 == IF neighbor_id \in all_ids
                         THEN all_ids \ {neighbor_id} ELSE all_ids
         IN  IF neighbor_id \notin seen
             THEN fcc_for(Tail(neighbors), all_ids1,
                          Append(quene, neighbor_id), seen \cup {neighbor_id})
             ELSE fcc_for(Tail(neighbors), all_ids1, quene, seen)

RECURSIVE fcc_inner(_, _, _)
fcc_inner(quene, all_ids, seen) ==
    IF Len(quene) = 0 THEN [all_ids |-> all_ids, seen |-> seen]
    ELSE LET current_id == Head(quene)
             current_vertex == get_vertex(current_id)
             r == fcc_for(get_neighbors(current_vertex), all_ids, Tail(quene),
                          seen)
         IN  fcc_inner(r.quene, r.all_ids, r.seen)

RECURSIVE fcc_while(_, _)
fcc_while(all_ids, components) ==
    IF Cardinality(all_ids) = 0 THEN {Value("list", components)}
    ELSE UNION {LET r == fcc_inner(<<start_id>>, all_ids \ {start_id},
                                   {start_id})
                IN  fcc_while(r.all_ids, Append(components, r.seen))
                : start_id \in all_ids}

find_connected_components_results ==
    fcc_while(SeqToSet(DictKeys(vertex_dict)), <<>>)

find_connected_components ==
    \E r \in find_connected_components_results :
        Returns("find_connected_components", <<>>, r)

----------------------------------------------------------------------------
\* Specifications.  The queries read the graph and never change it, so each
\* query is also explored on its own beside the construction operations.

Build ==
    \/ \E vertex_id \in Ids : add_vertex(vertex_id)
    \/ \E vertex_id1, vertex_id2 \in Ids : add_edge(vertex_id1, vertex_id2)

Next ==
    \/ Build
    \/ \E start_id \in Ids : bfs_traversal(start_id)
    \/ \E start_id, target_id \in Ids : find_shortest_path(start_id, target_id)
    \/ \E start_id \in Ids, target_distance \in 0..MaxDistance :
          find_vertices_n_away(start_id, target_distance)
    \/ is_bipartite
    \/ get_connected_components
    \/ \E start_id, target_id \in Ids : find_path_dfs_iter(start_id, target_id)
    \/ contains_cycle
    \/ topological_sort
    \/ find_connected_components

Spec == Init /\ [][Next]_vars

NextBuild ==
    \/ Build
    \/ \E start_id \in Ids : bfs_traversal(start_id)

SpecBuild == Init /\ [][NextBuild]_vars

NextShortestPath ==
    \/ Build
    \/ \E start_id, target_id \in Ids : find_shortest_path(start_id, target_id)

SpecShortestPath == Init /\ [][NextShortestPath]_vars

NextNAway ==
    \/ Build
    \/ \E start_id \in Ids, target_distance \in 0..MaxDistance :
          find_vertices_n_away(start_id, target_distance)

SpecNAway == Init /\ [][NextNAway]_vars

NextBipartite ==
    \/ Build
    \/ is_bipartite

SpecBipartite == Init /\ [][NextBipartite]_vars

NextComponents ==
    \/ Build
    \/ get_connected_components
    \/ find_connected_components

SpecComponents == Init /\ [][NextComponents]_vars

NextDfs ==
    \/ Build
    \/ \E start_id, target_id \in Ids : find_path_dfs_iter(start_id, target_id)

SpecDfs == Init /\ [][NextDfs]_vars

NextCycle ==
    \/ Build
    \/ contains_cycle

SpecCycle == Init /\ [][NextCycle]_vars

NextTopo ==
    \/ Build
    \/ topological_sort

SpecTopo == Init /\ [][NextTopo]_vars

----------------------------------------------------------------------------
\* The graph the claims speak of: the ids stored in the graph and, between
\* them, the adjacency a lookup by id gives (u -> v when v is a key of the
\* neighbors of the Vertex stored under u).

Nodes == SeqToSet(DictKeys(vertex_dict))

Adjacent(u, v) ==
    /\ contains_id(u)
    /\ DictHas(objects[get_vertex(u)].neighbors_dict, v)

Successors(u) == {v \in Nodes : Adjacent(u, v)}

\* the ids at most k edges away from s
RECURSIVE Within(_, _)
Within(s, k) ==
    IF k = 0 THEN {s}
    ELSE LET W == Within(s, k - 1) IN W \cup UNION {Successors(u) : u \in W}

Reachable(s, t) == t \in Within(s, Cardinality(Nodes))

Distance(s, t) ==
    CHOOSE k \in 0..Cardinality(Nodes) :
        t \in Within(s, k) /\ \A j \in 0..(k - 1) : t \notin Within(s, j)

IsPath(p, s, t) ==
    /\ Len(p) >= 1
    /\ p[1] = s
    /\ p[Len(p)] = t
    /\ \A i \in 1..(Len(p) - 1) : Adjacent(p[i], p[i + 1])

OnCycle(v) == \E u \in Successors(v) : Reachable(u, v)

Acyclic == \A v \in Nodes : ~OnCycle(v)

\* no Vertex that was replaced by a later add_vertex is still referred to
NoStaleVertex == Len(objects) = Len(vertex_dict)

Position(s, x) == CHOOSE i \in 1..Len(s) : s[i] = x

NoDuplicates(s) == \A i, j \in 1..Len(s) : s[i] = s[j] => i = j

----------------------------------------------------------------------------
\* C1: for ids s, t both present, find_shortest_path(s, t) returns a path from
\* s to t (first s, last t, every consecutive pair an edge) with the minimum
\* number of edges, and returns None exactly when t is not reachable from s.
C1_ShortestPath ==
    (call.name = "find_shortest_path" /\ contains_id(call.args[1])
        /\ contains_id(call.args[2]))
    => LET s == call.args[1]
           t == call.args[2]
       IN  IF Reachable(s, t)
           THEN /\ ret.kind = "list"
                /\ IsPath(ret.val, s, t)
                /\ Len(ret.val) - 1 = Distance(s, t)
           ELSE ret.kind = "None"

\* C1 on the graphs in which no replaced Vertex is referred to any more.
C1_ShortestPath_NoStaleVertex == NoStaleVertex => C1_ShortestPath

\* C2: on a graph whose edges form no cycle, topological_sort() returns every
\* vertex id exactly once, and u before v for every edge u -> v.
C2_TopologicalOrder ==
    (call.name = "topological_sort" /\ Acyclic)
    => /\ ret.kind = "list"
       /\ SeqToSet(ret.val) = Nodes
       /\ NoDuplicates(ret.val)
       /\ \A u, v \in Nodes :
             Adjacent(u, v) => Position(ret.val, u) < Position(ret.val, v)

\* a directed graph on three vertices with at least two edges and no cycle was
\* sorted
C2_Witness ==
    /\ call.name = "topological_sort"
    /\ is_directed
    /\ Acyclic
    /\ Cardinality(Nodes) = 3
    /\ Cardinality({e \in Nodes \X Nodes : Adjacent(e[1], e[2])}) >= 2
    /\ Len(ret.val) = 3

\* C3: on a graph that contains a cycle topological_sort() fails with a cycle
\* error, and it never returns an ordering that omits a vertex of the graph.
C3_CycleError ==
    (call.name = "topological_sort" /\ is_directed)
    => /\ ~Acyclic => ret.kind \in {"ValueError", "CycleError"}
       /\ ret.kind = "list" => SeqToSet(ret.val) = Nodes

\* the ids reachable from the first vertex inserted
FromStart == Within(DictKeys(vertex_dict)[1], Cardinality(Nodes))

\* C4: on a non-empty directed graph contains_cycle() returns True when some
\* vertex reachable from the first vertex inserted lies on a cycle (self-loops
\* included), and False otherwise.
C4_ContainsCycle ==
    (call.name = "contains_cycle" /\ is_directed /\ Nodes # {})
    => /\ ret.kind = "bool"
       /\ ret.val = (\E v \in FromStart : OnCycle(v))

\* every id of the graph is in exactly one component, once
PartitionByLists(components) ==
    \A v \in Nodes :
        Cardinality({p \in UNION {{<<i, j>> : j \in 1..Len(components[i])}
                                   : i \in 1..Len(components)} :
                        components[p[1]][p[2]] = v}) = 1

PartitionBySets(components) ==
    \A v \in Nodes :
        Cardinality({i \in 1..Len(components) : v \in components[i]}) = 1

C5_GetConnectedComponents ==
    (call.name = "get_connected_components" /\ Nodes # {})
    => /\ ret.kind = "list"
       /\ PartitionByLists(ret.val)

C5_FindConnectedComponents ==
    (call.name = "find_connected_components" /\ Nodes # {})
    => /\ ret.kind = "list"
       /\ PartitionBySets(ret.val)

\* C5: on a graph with at least one vertex, whatever the start vertices
\* chosen, get_connected_components() and find_connected_components() each
\* return components that hold every vertex id exactly once.
C5_Components == C5_GetConnectedComponents /\ C5_FindConnectedComponents

TwoColorable(S) ==
    \E color \in [S -> {"red", "blue"}] :
        \A u, v \in S : Adjacent(u, v) => color[u] # color[v]

\* C6: on a non-empty undirected graph, whatever the start vertex chosen,
\* is_bipartite() returns True exactly when the component of the start vertex
\* can be 2-colored (no odd cycle, no self-loop).
C6_Bipartite ==
    (call.name = "is_bipartite" /\ ~is_directed /\ Nodes # {})
    => /\ ret.kind = "bool"
       /\ ret.val = TwoColorable(Within(call.args[1], Cardinality(Nodes)))

\* C6 on the graphs in which no replaced Vertex is referred to any more.
C6_Bipartite_NoStaleVertex == NoStaleVertex => C6_Bipartite

\* C7: for a present start id s and n >= 0, find_vertices_n_away(s, n) returns
\* exactly the ids at distance n from s, each once (s itself for n = 0, nothing
\* for n beyond the farthest reachable vertex).
C7_VerticesNAway ==
    (call.name = "find_vertices_n_away" /\ contains_id(call.args[1]))
    => LET s == call.args[1]
           n == call.args[2]
       IN  /\ ret.kind = "list"
           /\ NoDuplicates(ret.val)
           /\ SeqToSet(ret.val)
                = {v \in Nodes : Reachable(s, v) /\ Distance(s, v) = n}

\* C7 for n >= 1 on the graphs in which no replaced Vertex is referred to.
C7_VerticesNAway_Positive_NoStaleVertex ==
    (NoStaleVertex /\ call.name = "find_vertices_n_away" /\ call.args[2] >= 1)
    => C7_VerticesNAway

\* C8: for present ids s, t, find_path_dfs_iter(s, t) returns a path from s to
\* t whenever t is reachable from s (t = s included), and the map of reached
\* ids to their paths only when t is not reachable.
C8_PathDfsIter ==
    (call.name = "find_path_dfs_iter" /\ contains_id(call.args[1])
        /\ contains_id(call.args[2]))
    => LET s == call.args[1]
           t == call.args[2]
       IN  IF Reachable(s, t)
           THEN ret.kind = "list" /\ IsPath(ret.val, s, t)
           ELSE ret.kind = "dict"

\* C8 for t # s on the graphs in which no replaced Vertex is referred to.
C8_PathDfsIter_Distinct_NoStaleVertex ==
    (NoStaleVertex /\ call.name = "find_path_dfs_iter"
        /\ call.args[1] # call.args[2])
    => C8_PathDfsIter

\* C9: add_edge(id1, id2) with id1 or id2 absent fails with the not-found
\* error that bfs_traversal and find_shortest_path raise for an absent id
\* (KeyError), and leaves the graph as it was.
C9_AddEdgeAbsent ==
    [][(call'.name = "add_edge"
          /\ (~contains_id(call'.args[1]) \/ ~contains_id(call'.args[2])))
       => (ret'.kind = "KeyError" /\ UNCHANGED <<objects, vertex_dict>>)]_vars

\* the part of C9 about the graph: a failed add_edge changes nothing
C9_FailedAddEdgeChangesNothing ==
    [][(call'.name = "add_edge" /\ ret'.kind # "None")
       => UNCHANGED <<objects, vertex_dict>>]_vars

\* the error bfs_traversal raises for an absent id
C9_BfsTraversalAbsent ==
    (call.name = "bfs_traversal" /\ ~contains_id(call.args[1]))
    => ret.kind = "KeyError"

\* C10: every neighbor reference stored in the adjacency map of a vertex of
\* the graph is the Vertex the graph stores under that neighbor's id.
C10_NeighborsAreCurrent ==
    \A i \in 1..Len(vertex_dict) :
        LET neighbors_dict == objects[vertex_dict[i][2]].neighbors_dict IN
        \A j \in 1..Len(neighbors_dict) :
            neighbors_dict[j][2] = get_vertex(neighbors_dict[j][1])

====
